---- MODULE Spec2Model ----
(***************************************************************************)
(* Model of KnuthPlassParagraph (src/c++/knuth_plass.cpp): the paragraph   *)
(* builder (add_box, add_glue, add_penalty, the standard paragraph end)    *)
(* and calc_knuth_plass_breaks, stepped through its forward pass, its      *)
(* terminal selection and the reconstruction of the break list.            *)
(*                                                                         *)
(* Positions and lines are 0-based as in the source; TLA+ sequences are    *)
(* 1-based, so item i of the paragraph is par[i + 1].                      *)
(* Break nodes live in an arena `nodes`; a shared_ptr<Break> is an index   *)
(* into it and 0 is nullptr.                                               *)
(***************************************************************************)
EXTENDS Integers, Sequences, FiniteSets

VARIABLES par, line_lengths, tolerance, looseness, pc, B, nodes,
          active_nodes, breaks_to_activate, breaks_to_deactivate, A,
          breaks, outcome

\* par                   the vectors type, width, stretch, shrink, penalty
\*                       and flagged of the paragraph (lines 64-69)
\* line_lengths, tolerance, looseness
\*                       the arguments of calc_knuth_plass_breaks
\* pc                    where the call stands: "build" and "ended" before
\*                       it, "scan" at the head of the loop over B, "apply"
\*                       in the removal and insertion loops, "looseness",
\*                       "generate", "done"
\* B                     the loop variable B (line 324)
\* nodes                 the Break objects made so far (lines 40-57)
\* active_nodes, breaks_to_activate, breaks_to_deactivate
\*                       the vectors of lines 315, 322 and 323
\* A                     the local A (line 318)
\* breaks                the member breaks (line 139)
\* outcome               how the call ended: "none" while it has not
vars == <<par, line_lengths, tolerance, looseness, pc, B, nodes,
          active_nodes, breaks_to_activate, breaks_to_deactivate, A,
          breaks, outcome>>

(***************************************************************************)
(* Bounds of the model and constants of the program.                       *)
(***************************************************************************)
\* Largest number of items the caller appends before the paragraph end.
MaxBody == 3

\* const unsigned int INF = 10000
INF == 10000

\* Default values of fitness_demerit and flagged_demerit.
fitness_demerit == 100
flagged_demerit == 100

\* A double holding demerits is kept as an integer count of 1/DemUnit:
\* 512 = 8^3 makes (|r|^3 + p)^3 and (|r|^3)^2 exact for ratios in halves.
DemUnit == 512

\* Values the callers pass for line_lengths, tolerance and looseness.
LineLengthChoices == {<<1>>, <<3>>, <<1, 4>>}
ToleranceChoices == {1, 2}
LoosenessChoices == {-1, 0, 1}

(***************************************************************************)
(* float values. A float is val + wraps * 2^32: `wraps` counts the 2^32    *)
(* that unsigned negation adds, so that -INF (INF is an unsigned int)      *)
(* keeps its 32-bit width without the model holding a number of that size. *)
(***************************************************************************)
Float(v) == [wraps |-> 0, val |-> v]

\* -u for an unsigned int u > 0 is 2^32 - u, then converted to float
\* (24-bit mantissa: values in [2^31, 2^32) are multiples of 256).
UNegToFloat(u) == [wraps |-> 1, val |-> ((128 - u) \div 256) * 256]

\* p < c, p > c for a float p and a small integer c (converted to float).
FLess(p, c) == p.wraps = 0 /\ p.val < c
FGreater(p, c) == p.wraps > 0 \/ p.val > c
FGeq(p, c) == p.wraps > 0 \/ p.val >= c

(***************************************************************************)
(* The paragraph: one record per specification (the parallel vectors type, *)
(* width, stretch, shrink, penalty, flagged).                              *)
(***************************************************************************)
\* What add_box, add_glue and add_penalty push onto the vectors.
BoxSpec(w) ==
    [type |-> "BOX", width |-> w, stretch |-> 0, shrink |-> 0,
     penalty |-> Float(0), flagged |-> FALSE]

GlueSpec(sh, w, st) ==
    [type |-> "GLUE", width |-> w, stretch |-> st, shrink |-> sh,
     penalty |-> Float(0), flagged |-> FALSE]

PenaltySpec(w, p, f) ==
    [type |-> "PENALTY", width |-> w, stretch |-> 0, shrink |-> 0,
     penalty |-> p, flagged |-> f]

\* The arguments the callers pass to add_box, add_glue and add_penalty:
\* a character box, a space, an optional break, a hyphen, a favoured
\* break, a float -INF, and '@', whose -INF negates the unsigned INF.
BoxArgs == { <<1>> }
GlueArgs == { <<1, 2, 1>> }
PenaltyArgs ==
    { <<0, Float(0), FALSE>>,
      <<1, Float(5), TRUE>>,
      <<0, Float(-1), FALSE>>,
      <<0, Float(0 - INF), FALSE>>,
      <<0, UNegToFloat(INF), FALSE>> }

\* The forced break that ends the paragraph: make_simple_paragraph's
\* -INF (unsigned), or a float -INF passed by another caller.
EndPenalties == { UNegToFloat(INF), Float(0 - INF) }

m == Len(par)
Item(i) == par[i + 1]

(***************************************************************************)
(* Prefix sums (sum_width, sum_stretch, sum_shrink): entry i holds the sum *)
(* over the items before i. The loop adds width[i] of every item.          *)
(***************************************************************************)
RECURSIVE sum_width(_)
sum_width(i) == IF i = 0 THEN 0 ELSE sum_width(i - 1) + Item(i - 1).width

RECURSIVE sum_stretch(_)
sum_stretch(i) == IF i = 0 THEN 0 ELSE sum_stretch(i - 1) + Item(i - 1).stretch

RECURSIVE sum_shrink(_)
sum_shrink(i) == IF i = 0 THEN 0 ELSE sum_shrink(i - 1) + Item(i - 1).shrink

(***************************************************************************)
(* A ratio (double r) is the fraction num / den with den > 0.              *)
(***************************************************************************)
Ratio(n, d) == [num |-> n, den |-> d]

\* r < -1, -1 <= r, r <= c for an integer c, and r compared with +-0.5.
RLessMinusOne(r) == r.num < 0 - r.den
RLeq(r, c) == r.num <= c * r.den
RLessMinusHalf(r) == 2 * r.num < 0 - r.den
RLeqHalf(r) == 2 * r.num <= r.den

Abs(x) == IF x < 0 THEN 0 - x ELSE x

\* std::pow(std::abs(r), 3.0) in eighths, truncated.
Cube8(r) ==
    (((8 * Abs(r.num) * Abs(r.num) * Abs(r.num)) \div r.den) \div r.den) \div r.den

available_width(line) ==
    IF line < Len(line_lengths)
        THEN line_lengths[line + 1]
        ELSE line_lengths[Len(line_lengths)]

compute_adjustment_ratio(pos1, pos2, line) ==
    LET ideal_width ==
            sum_width(pos2) - sum_width(pos1)
              + (IF Item(pos2).type = "PENALTY" THEN Item(pos2).width ELSE 0)
        avail == available_width(line)
        y == sum_stretch(pos2) - sum_stretch(pos1)
        z == sum_shrink(pos2) - sum_shrink(pos1)
    IN  IF ideal_width < avail
            THEN IF y > 0 THEN Ratio(avail - ideal_width, y) ELSE Ratio(INF, 1)
        ELSE IF ideal_width > avail
            THEN IF z > 0 THEN Ratio(avail - ideal_width, z) ELSE Ratio(INF, 1)
        ELSE Ratio(0, 1)

is_feasible_breakpoint(i) ==
    \/ Item(i).type = "PENALTY" /\ FLess(Item(i).penalty, INF)
    \/ i > 0 /\ Item(i - 1).type = "BOX" /\ Item(i).type = "GLUE"

(***************************************************************************)
(* Break nodes.                                                            *)
(***************************************************************************)
Break(position, line, fitness_class, demerits, ratio, previous) ==
    [position |-> position, line |-> line, fitness_class |-> fitness_class,
     demerits |-> demerits, ratio |-> ratio, previous |-> previous]

\* The first breakpoint, at the start of the paragraph.
Origin == Break(0, 0, 1, 0, Ratio(0, 1), 0)

\* The scan that finds the insertion point: the first index (0-based) whose
\* node has a line not below `line`.
RECURSIVE InsertIndex(_, _, _)
InsertIndex(active, line, index) ==
    IF index < Len(active) /\ nodes[active[index + 1]].line < line
        THEN InsertIndex(active, line, index + 1)
        ELSE index

\* The duplicate test with the position compared in place of the line.
IsDuplicateAtPosition(old, new) ==
    old.fitness_class = new.fitness_class /\ old.position = new.position

\* The duplicate test of add_active_node.
IsDuplicate(old, new) ==
    old.fitness_class = new.fitness_class /\ old.line = new.line

\* Whether the second scan, over the nodes of the same line, finds a match.
RECURSIVE HasMatch(_, _, _)
HasMatch(active, node, index) ==
    /\ index < Len(active)
    /\ nodes[active[index + 1]].line = nodes[node].line
    /\ \/ IsDuplicate(nodes[active[index + 1]], nodes[node])
       \/ HasMatch(active, node, index + 1)

add_active_node(active, node) ==
    LET insert_index == InsertIndex(active, nodes[node].line, 0)
    IN  IF HasMatch(active, node, insert_index)
            THEN active
            ELSE SubSeq(active, 1, insert_index) \o <<node>>
                   \o SubSeq(active, insert_index + 1, Len(active))

\* active_nodes.erase of the first entry that is break_node, if any.
RECURSIVE EraseNode(_, _)
EraseNode(active, break_node) ==
    IF active = <<>> THEN <<>>
    ELSE IF Head(active) = break_node THEN Tail(active)
    ELSE <<Head(active)>> \o EraseNode(Tail(active), break_node)

(***************************************************************************)
(* The body of the loop over the active nodes, for the breakpoint B.       *)
(***************************************************************************)
\* r < -1 || penalty[B] > INF
NeedsDeactivation(b, r) ==
    RLessMinusOne(r) \/ FGreater(Item(b).penalty, INF)

\* The candidate test without its lower limit.
IsCandidateNoFloor(r) == RLeq(r, tolerance)

\* -1 <= r && r <= tolerance
IsCandidate(r) == ~RLessMinusOne(r) /\ RLeq(r, tolerance)

FitnessClass(r) ==
    IF RLessMinusHalf(r) THEN 0
    ELSE IF RLeqHalf(r) THEN 1
    ELSE IF RLeq(r, 1) THEN 2
    ELSE 3

\* The demerits of the line from node a to b with ratio r, in 1/DemUnit:
\* 1 + 100 * pow(pow(|r|, 3) + p, 3) for p >= 0, and the two other branches.
BaseDemerits(b, r) ==
    LET p == Item(b).penalty
        c == Cube8(r)
    IN  IF FGeq(p, 0)
            THEN DemUnit + 100 * (c + 8 * p.val) * (c + 8 * p.val) * (c + 8 * p.val)
        ELSE IF FGreater(p, INF)
            THEN DemUnit + 800 * c * c - DemUnit * p.val * p.val
        ELSE DemUnit + 800 * c * c

LineDemerits(a, b, r) ==
    BaseDemerits(b, r)
      + (IF Item(a.position).flagged /\ Item(b).flagged
            THEN flagged_demerit * DemUnit ELSE 0)
      + (IF Abs(FitnessClass(r) - a.fitness_class) > 1
            THEN fitness_demerit * DemUnit ELSE 0)

\* The demerits stored in the node made from a for a line of demerits d.
NodeDemerits(a, d) == d

\* The line number without its increment.
NodeLineSame(a) == a.line

\* The line number of the node made from a.
NodeLine(a) == a.line + 1

\* make_shared<Break>(B, A->line + 1, fitness_class, demerits, r, A)
NewBreak(j) ==
    LET a == nodes[j]
        r == compute_adjustment_ratio(a.position, B, a.line)
    IN  Break(B, NodeLine(a), FitnessClass(r),
              NodeDemerits(a, LineDemerits(a, B, r)), r, j)

RatioFrom(j) == compute_adjustment_ratio(nodes[j].position, B, nodes[j].line)

(***************************************************************************)
(* The paragraph builder.                                                  *)
(***************************************************************************)
solving == <<line_lengths, tolerance, looseness, B, nodes, active_nodes,
             breaks_to_activate, breaks_to_deactivate, A, breaks, outcome>>

Init ==
    /\ par = <<>>
    /\ line_lengths = <<>>
    /\ tolerance = 1
    /\ looseness = 0
    /\ pc = "build"
    /\ B = 0
    /\ nodes = <<>>
    /\ active_nodes = <<>>
    /\ breaks_to_activate = <<>>
    /\ breaks_to_deactivate = <<>>
    /\ A = 0
    /\ breaks = <<>>
    /\ outcome = "none"

add_box(w) ==
    /\ pc = "build"
    /\ Len(par) < MaxBody
    /\ par' = Append(par, BoxSpec(w))
    /\ UNCHANGED <<pc, solving>>

add_glue(sh, w, st) ==
    /\ pc = "build"
    /\ Len(par) < MaxBody
    /\ par' = Append(par, GlueSpec(sh, w, st))
    /\ UNCHANGED <<pc, solving>>

add_penalty(w, p, f) ==
    /\ pc = "build"
    /\ Len(par) < MaxBody
    /\ par' = Append(par, PenaltySpec(w, p, f))
    /\ UNCHANGED <<pc, solving>>

\* add_penalty(0, INF, 0), add_glue(0, 0, INF), add_penalty(0, -INF, 1)
paragraph_end(p) ==
    /\ pc = "build"
    /\ par' = par \o << PenaltySpec(0, Float(INF), FALSE),
                        GlueSpec(0, 0, INF),
                        PenaltySpec(0, p, TRUE) >>
    /\ pc' = "ended"
    /\ UNCHANGED solving

(***************************************************************************)
(* calc_knuth_plass_breaks.                                                *)
(***************************************************************************)
\* The call: the sums are those of par, and the first breakpoint is active.
\* looseness is read only after the forward pass: its value is drawn there.
calc_knuth_plass_breaks(lengths, tol) ==
    /\ pc \in {"build", "ended"}
    /\ line_lengths' = lengths
    /\ tolerance' = tol
    /\ nodes' = <<Origin>>
    /\ active_nodes' = <<1>>
    /\ A' = 1
    /\ B' = 0
    /\ pc' = "scan"
    /\ UNCHANGED <<par, looseness, breaks_to_activate, breaks_to_deactivate,
                   breaks, outcome>>

\* B is no feasible breakpoint.
SkipItem ==
    /\ pc = "scan"
    /\ B < m
    /\ ~is_feasible_breakpoint(B)
    /\ B' = B + 1
    /\ UNCHANGED <<par, line_lengths, tolerance, looseness, pc, nodes,
                   active_nodes, breaks_to_activate, breaks_to_deactivate,
                   A, breaks, outcome>>

\* The loop over the active nodes at a feasible breakpoint B; A is left at
\* the node examined last.
ExamineBreakpoint ==
    /\ pc = "scan"
    /\ B < m
    /\ is_feasible_breakpoint(B)
    /\ LET from == SelectSeq(active_nodes, LAMBDA j : IsCandidate(RatioFrom(j)))
       IN  /\ nodes' = nodes \o [k \in 1..Len(from) |-> NewBreak(from[k])]
           /\ breaks_to_activate' = [k \in 1..Len(from) |-> Len(nodes) + k]
    /\ breaks_to_deactivate' =
           SelectSeq(active_nodes, LAMBDA j : NeedsDeactivation(B, RatioFrom(j)))
    /\ A' = IF active_nodes = <<>> THEN A ELSE active_nodes[Len(active_nodes)]
    /\ pc' = "apply"
    /\ UNCHANGED <<par, line_lengths, tolerance, looseness, B, active_nodes,
                   breaks, outcome>>

\* A removal loop that never stops early.
NeverStopsRemoving(active) == FALSE

\* active_nodes.size() == 1: the removal loop stops.
StopsRemoving(active) == Len(active) = 1

\* One round of the removal loop.
Deactivate ==
    /\ pc = "apply"
    /\ breaks_to_deactivate # <<>>
    /\ IF StopsRemoving(active_nodes)
          THEN /\ breaks_to_deactivate' = <<>>
               /\ UNCHANGED active_nodes
          ELSE /\ active_nodes' = EraseNode(active_nodes, Head(breaks_to_deactivate))
               /\ breaks_to_deactivate' = Tail(breaks_to_deactivate)
    /\ UNCHANGED <<par, line_lengths, tolerance, looseness, pc, B, nodes,
                   breaks_to_activate, A, breaks, outcome>>

\* One round of the insertion loop.
Activate ==
    /\ pc = "apply"
    /\ breaks_to_deactivate = <<>>
    /\ breaks_to_activate # <<>>
    /\ active_nodes' = add_active_node(active_nodes, Head(breaks_to_activate))
    /\ breaks_to_activate' = Tail(breaks_to_activate)
    /\ UNCHANGED <<par, line_lengths, tolerance, looseness, pc, B, nodes,
                   breaks_to_deactivate, A, breaks, outcome>>

NextItem ==
    /\ pc = "apply"
    /\ breaks_to_deactivate = <<>>
    /\ breaks_to_activate = <<>>
    /\ B' = B + 1
    /\ pc' = "scan"
    /\ UNCHANGED <<par, line_lengths, tolerance, looseness, nodes,
                   active_nodes, breaks_to_activate, breaks_to_deactivate,
                   A, breaks, outcome>>

(***************************************************************************)
(* Terminal selection.                                                     *)
(***************************************************************************)
\* The active node with the lowest demerits: the first such node.
RECURSIVE LowestFrom(_, _)
LowestFrom(i, best) ==
    IF i > Len(active_nodes) THEN best
    ELSE IF nodes[active_nodes[i]].demerits < nodes[best].demerits
        THEN LowestFrom(i + 1, active_nodes[i])
        ELSE LowestFrom(i + 1, best)

\* active_nodes.at(0) throws std::out_of_range on an empty vector.
FindLowest ==
    /\ pc = "scan"
    /\ B = m
    /\ IF active_nodes = <<>>
          THEN /\ outcome' = "out_of_range"
               /\ pc' = "done"
               /\ UNCHANGED A
          ELSE /\ A' = LowestFrom(1, active_nodes[1])
               /\ pc' = "looseness"
               /\ UNCHANGED outcome
    /\ UNCHANGED <<par, line_lengths, tolerance, looseness, B, nodes,
                   active_nodes, breaks_to_activate, breaks_to_deactivate,
                   breaks>>

\* SuperULong delta = br->line - A->line: val + wraps * 2^64.
USub(x, y) == [wraps |-> IF x < y THEN 1 ELSE 0, val |-> x - y]

\* delta compared with the unsigned best and the double looseness.
ULess(u, c) == u.wraps = 0 /\ u.val < c
UGreater(u, c) == u.wraps > 0 \/ u.val > c
UEquals(u, c) == u.wraps = 0 /\ u.val = c

\* (looseness <= delta && delta < best) || (best < delta || delta < looseness)
LoosenessTakes(delta, best, loose) ==
    \/ ~ULess(delta, loose) /\ ULess(delta, best)
    \/ UGreater(delta, best)
    \/ ULess(delta, loose)

\* The loop over the active nodes: best stays 0, d is an unsigned int that
\* takes the truncated demerits, b is the node chosen last (0: none yet).
RECURSIVE LoosenessLoop(_, _, _, _)
LoosenessLoop(i, d, b, loose) ==
    IF i > Len(active_nodes) THEN b
    ELSE LET br == active_nodes[i]
             delta == USub(nodes[br].line, nodes[A].line)
         IN  IF LoosenessTakes(delta, 0, loose)
                 THEN LoosenessLoop(i + 1, nodes[br].demerits \div DemUnit, br, loose)
             ELSE IF UEquals(delta, 0) /\ nodes[br].demerits < d * DemUnit
                 THEN LoosenessLoop(i + 1, nodes[br].demerits \div DemUnit, br, loose)
             ELSE LoosenessLoop(i + 1, d, b, loose)

HandleLooseness(loose) ==
    /\ pc = "looseness"
    /\ looseness' = loose
    /\ A' = IF loose # 0 THEN LoosenessLoop(1, INF, 0, loose) ELSE A
    /\ pc' = "generate"
    /\ UNCHANGED <<par, line_lengths, tolerance, B, nodes, active_nodes,
                   breaks_to_activate, breaks_to_deactivate, breaks, outcome>>

\* The chain with the first breakpoint kept in it.
RECURSIVE ChainToWithOrigin(_)
ChainToWithOrigin(j) ==
    IF j = 0 THEN <<>> ELSE Append(ChainToWithOrigin(nodes[j].previous), j)

\* The chain from node j back to, and without, the first breakpoint.
RECURSIVE ChainTo(_)
ChainTo(j) ==
    IF nodes[j].previous = 0 THEN <<>> ELSE Append(ChainTo(nodes[j].previous), j)

\* A->previous with A == nullptr is undefined: the call crashes, or returns
\* with whatever list the build makes of it.
GenerateBreaks ==
    /\ pc = "generate"
    /\ IF A = 0
          THEN \/ outcome' = "crashed" /\ UNCHANGED breaks
               \/ outcome' = "returned" /\ breaks' = <<>>
          ELSE /\ outcome' = "returned"
               /\ breaks' = [k \in 1..Len(ChainTo(A)) |-> nodes[ChainTo(A)[k]]]
    /\ pc' = "done"
    /\ UNCHANGED <<par, line_lengths, tolerance, looseness, B, nodes,
                   active_nodes, breaks_to_activate, breaks_to_deactivate, A>>

Next ==
    \/ \E a \in BoxArgs : add_box(a[1])
    \/ \E a \in GlueArgs : add_glue(a[1], a[2], a[3])
    \/ \E a \in PenaltyArgs : add_penalty(a[1], a[2], a[3])
    \/ \E p \in EndPenalties : paragraph_end(p)
    \/ \E lengths \in LineLengthChoices, tol \in ToleranceChoices :
           calc_knuth_plass_breaks(lengths, tol)
    \/ SkipItem
    \/ ExamineBreakpoint
    \/ Deactivate
    \/ Activate
    \/ NextItem
    \/ FindLowest
    \/ \E loose \in LoosenessChoices : HandleLooseness(loose)
    \/ GenerateBreaks

Spec == Init /\ [][Next]_vars

(***************************************************************************)
(* What the claims speak of.                                               *)
(***************************************************************************)
\* The call has returned its break list.
Returned == pc = "done" /\ outcome = "returned"

\* Item i is a Penalty with penalty <= -INF (a forced break).
IsForcedBreak(i) ==
    /\ Item(i).type = "PENALTY"
    /\ Item(i).penalty.wraps = 0
    /\ Item(i).penalty.val <= 0 - INF

\* The paragraph ends with Penalty(+INF), Glue(0, stretch INF, shrink 0),
\* Penalty(-INF).
EndsWithTerminator ==
    /\ m >= 3
    /\ Item(m - 3).type = "PENALTY" /\ Item(m - 3).penalty = Float(INF)
    /\ Item(m - 2) = GlueSpec(0, 0, INF)
    /\ IsForcedBreak(m - 1)

BreakPositions == { breaks[k].position : k \in 1..Len(breaks) }

SetMin(S) == CHOOSE x \in S : \A y \in S : x <= y

\* The sum of the per-line demerits of the lines that break at the
\* positions S, taken in order after the node a; -1 when a line has a
\* ratio outside [-1, tolerance].
RECURSIVE ChainCost(_, _)
ChainCost(a, S) ==
    IF S = {} THEN 0
    ELSE LET b == SetMin(S)
             r == compute_adjustment_ratio(a.position, b, a.line)
             rest == ChainCost(Break(b, a.line + 1, FitnessClass(r), 0, r, 0),
                               S \ {b})
         IN  IF ~IsCandidate(r) \/ rest < 0 THEN 0 - 1
             ELSE LineDemerits(a, b, r) + rest

\* The sequences of feasible breakpoints that end at the last item and
\* whose every line has a ratio in [-1, tolerance].
CompleteChains ==
    { S \in { T \cup {m - 1} :
                T \in SUBSET { i \in 0..(m - 2) : is_feasible_breakpoint(i) } } :
        is_feasible_breakpoint(m - 1) /\ ChainCost(Origin, S) >= 0 }

\* C1: with looseness = 0 and the standard terminator, no sequence of
\* feasible breaks that ends at the final forced penalty, every line with a
\* ratio in [-1, tolerance], has a smaller sum of per-line demerits than
\* the returned break list.
C1_MinimumTotalDemerits ==
    (Returned /\ looseness = 0 /\ EndsWithTerminator) =>
        \A S \in CompleteChains :
            ChainCost(Origin, BreakPositions) <= ChainCost(Origin, S)

\* C2: with looseness = 0 and the standard terminator, the last returned
\* break is at the final forced penalty, the last item.
C2_LastBreakAtTerminator ==
    (Returned /\ looseness = 0 /\ EndsWithTerminator) =>
        /\ breaks # <<>>
        /\ breaks[Len(breaks)].position = m - 1

\* C3: a forced break strictly before the terminator is among the
\* returned breaks.
C3_ForcedBreakTaken ==
    (Returned /\ EndsWithTerminator) =>
        \A k \in 0..(m - 4) : IsForcedBreak(k) => k \in BreakPositions

\* C4: every returned break has a ratio r with -1 <= r <= tolerance.
C4_ReturnedRatiosInRange ==
    Returned =>
        \A k \in 1..Len(breaks) :
            ~RLessMinusOne(breaks[k].ratio) /\ RLeq(breaks[k].ratio, tolerance)

\* A returned list of several lines, one shrunk and one stretched.
C4_Witness ==
    /\ Returned
    /\ Len(breaks) >= 2
    /\ \E k \in 1..Len(breaks) : breaks[k].ratio.num < 0
    /\ \E k \in 1..Len(breaks) : breaks[k].ratio.num > 0

\* C5: the returned list b_1..b_n is a chain from the first breakpoint:
\* b_k.line = k, b_k.previous is b_(k-1) (the first breakpoint for k = 1),
\* and the positions are strictly increasing.
C5_ReturnedChain ==
    Returned =>
        \A k \in 1..Len(breaks) :
            /\ breaks[k].line = k
            /\ breaks[k].previous \in 1..Len(nodes)
            /\ IF k = 1
                  THEN nodes[breaks[k].previous] = Origin
                  ELSE /\ nodes[breaks[k].previous] = breaks[k - 1]
                       /\ breaks[k - 1].position < breaks[k].position

\* A returned list of three lines.
C5_Witness == Returned /\ Len(breaks) >= 3

\* The distance of node j's line from the line looseness asks for, best
\* being the active node with the lowest demerits.
LoosenessDistance(j) ==
    Abs(nodes[j].line - nodes[LowestFrom(1, active_nodes[1])].line - looseness)

\* C6: with looseness # 0 the node selected is the active node whose
\* (line - best.line) is closest to looseness and, among those equally
\* close, one with the fewest demerits.
C6_LoosenessSelectsClosest ==
    (pc = "generate" /\ looseness # 0) =>
        /\ \E i \in 1..Len(active_nodes) : active_nodes[i] = A
        /\ \A i \in 1..Len(active_nodes) :
              LET j == active_nodes[i]
              IN  \/ LoosenessDistance(A) < LoosenessDistance(j)
                  \/ /\ LoosenessDistance(A) = LoosenessDistance(j)
                     /\ nodes[A].demerits <= nodes[j].demerits

\* The paragraph has feasible breakpoints, yet no node was ever made
\* besides the first breakpoint: no line could be set within
\* [-1, tolerance].
NoCandidate ==
    /\ Len(nodes) = 1
    /\ \E i \in 0..(m - 1) : is_feasible_breakpoint(i)

C8_DemeritsCumulative ==
    \A j \in 2..Len(nodes) :
        LET a == nodes[nodes[j].previous]
        IN  nodes[j].demerits =
                a.demerits + LineDemerits(a, nodes[j].position, nodes[j].ratio)

UniquePairs ==
    \A i, j \in 1..Len(active_nodes) :
        i # j =>
            \/ nodes[active_nodes[i]].line # nodes[active_nodes[j]].line
            \/ nodes[active_nodes[i]].fitness_class
                 # nodes[active_nodes[j]].fitness_class

\* The (line, fitness_class) pair of node j is that of an active node.
PairPresent(j) ==
    \E i \in 1..Len(active_nodes) :
        /\ nodes[active_nodes[i]].line = nodes[j].line
        /\ nodes[active_nodes[i]].fitness_class = nodes[j].fitness_class

C10_ActiveNonEmptySorted ==
    (pc \notin {"build", "ended"}) =>
        /\ active_nodes # <<>>
        /\ \A i \in 1..(Len(active_nodes) - 1) :
              nodes[active_nodes[i]].line <= nodes[active_nodes[i + 1]].line

\* The removal loop has stopped at one node that was to be removed, and
\* the insertions of the round are done.
C10_Witness ==
    /\ pc = "apply"
    /\ breaks_to_deactivate = <<>>
    /\ breaks_to_activate = <<>>
    /\ \E i \in 1..Len(active_nodes) :
          /\ nodes[active_nodes[i]].position < B
          /\ NeedsDeactivation(B, RatioFrom(active_nodes[i]))

\* The sum of the widths of the Box and Glue items with index < i.
RECURSIVE BoxGlueWidth(_)
BoxGlueWidth(i) ==
    IF i = 0 THEN 0
    ELSE BoxGlueWidth(i - 1)
           + (IF Item(i - 1).type = "PENALTY" THEN 0 ELSE Item(i - 1).width)

\* C11: the width of a Penalty is not part of the prefix sum: sum_width[i]
\* is the sum of the widths of the Box and Glue items with index < i, so
\* the width of a penalty counts for a line only when the line breaks at it.
C11_PenaltyWidthNotInSums ==
    (pc \notin {"build", "ended"}) =>
        \A i \in 0..(m - 1) : sum_width(i) = BoxGlueWidth(i)

\* d = x^3, computed by division so that no intermediate exceeds d.
IsCubeOf(d, x) ==
    x > 0 /\ d % x = 0 /\ (d \div x) % x = 0 /\ (d \div x) \div x = x

\* d, in 1/DemUnit, is the three-case value for a line of ratio r (c is
\* 8 |r|^3) that ends at a break of penalty p:
\*   (1 + 100 |r|^3 + p)^3      when p >= 0,
\*   (1 + 100 |r|^3)^2 - p^2    when -INF < p < 0,
\*   (1 + 100 |r|^3)^2          when p <= -INF.
IsThreeCaseDemerits(d, c, p) ==
    IF p.wraps = 0 /\ p.val >= 0
        THEN IsCubeOf(d, 8 + 100 * c + 8 * p.val)
    ELSE IF p.wraps = 0 /\ p.val > 0 - INF
        THEN d = 8 * (8 + 100 * c) * (8 + 100 * c) - DemUnit * p.val * p.val
    ELSE d = 8 * (8 + 100 * c) * (8 + 100 * c)

\* C12: the base demerits of the line that ends at a break node (ratio r,
\* penalty p of the item broken at) follow the three-case formula
\* (1 + 100|r|^3 + p)^3 for p >= 0, (1 + 100|r|^3)^2 - p^2 for a finite
\* negative p, and (1 + 100|r|^3)^2 for a forced break.
C12_BaseDemeritsThreeCases ==
    \A j \in 2..Len(nodes) :
        LET n == nodes[j]
        IN  Item(n.position).penalty.wraps = 0 =>
                IsThreeCaseDemerits(BaseDemerits(n.position, n.ratio),
                                    Cube8(n.ratio), Item(n.position).penalty)

\* The examination of breakpoint B and both of its loops are over.
Processed == pc = "apply" /\ breaks_to_deactivate = <<>> /\ breaks_to_activate = <<>>

\* Node j was made before breakpoint B was examined.
MadeBefore(j) == j = 1 \/ nodes[j].position < B

\* The line from node j to B cannot be shrunk to its length: the widths of
\* its boxes and glue, and of the penalty broken at, less all of its shrink.
OverfullBeyondRepair(j) ==
    LET a == nodes[j].position
        natural == BoxGlueWidth(B) - BoxGlueWidth(a)
                     + (IF Item(B).type = "PENALTY" THEN Item(B).width ELSE 0)
    IN  natural - (sum_shrink(B) - sum_shrink(a)) > available_width(nodes[j].line)

\* The active nodes that were made before B was examined.
Survivors == SelectSeq(active_nodes, MadeBefore)

\* C13: once a feasible breakpoint B is processed, no node that was active
\* before B and whose line to B is overfull beyond repair (total shrink 0
\* included) is still active, unless it is the one node the removal loop
\* keeps so that the active set does not become empty.
C13_OverfullDeactivated ==
    Processed =>
        \A i \in 1..Len(Survivors) :
            OverfullBeyondRepair(Survivors[i]) => Len(Survivors) = 1

\* C14: for every looseness other than 0 and every final set of active
\* nodes, the looseness loop ends with a node selected, and that node is one
\* of the active nodes, so that the break list is generated from a node.
C14_LoosenessSelectsActiveNode ==
    (pc = "generate" /\ looseness # 0) =>
        /\ A # 0
        /\ \E i \in 1..Len(active_nodes) : active_nodes[i] = A

====
